---- MODULE Spec2Model ----
(***************************************************************************)
(* MatDec: load combination, simply supported beam statics and the         *)
(* candidate loop of main_beam_demo.py.                                    *)
(*                                                                         *)
(* Python floats are modelled as exact rationals [n, d] in lowest terms    *)
(* (d > 0), so arithmetic is the arithmetic of the reals the floats stand  *)
(* for; rounding error is outside the model.                               *)
(***************************************************************************)
EXTENDS Integers, Sequences, FiniteSets, TLC

VARIABLES pc, call, df, dbModule, res, idx, candidates, passing_sorted, best, error

vars == <<pc, call, df, dbModule, res, idx, candidates, passing_sorted, best, error>>

(***************************************************************************)
(* Exact rational arithmetic standing for Python float arithmetic.         *)
(***************************************************************************)
RECURSIVE GCD(_, _)
GCD(a, b) == IF b = 0 THEN a ELSE GCD(b, a % b)

Abs(i) == IF i < 0 THEN -i ELSE i

Q(n, d) ==
    LET g == GCD(Abs(n), Abs(d))
        s == IF d < 0 THEN -1 ELSE 1
    IN  [n |-> s * (n \div g), d |-> s * (d \div g)]

I(n) == [n |-> n, d |-> 1]

RNeg(a) == [n |-> -a.n, d |-> a.d]

RAdd(a, b) ==
    LET g == GCD(a.d, b.d)
        l == (a.d \div g) * b.d
    IN  Q(a.n * (l \div a.d) + b.n * (l \div b.d), l)

RSub(a, b) == RAdd(a, RNeg(b))

RMul(a, b) ==
    LET g1 == GCD(Abs(a.n), b.d)
        g2 == GCD(Abs(b.n), a.d)
    IN  IF a.n = 0 \/ b.n = 0 THEN I(0)
        ELSE [n |-> (a.n \div g1) * (b.n \div g2), d |-> (a.d \div g2) * (b.d \div g1)]

RInv(a) == IF a.n < 0 THEN [n |-> -a.d, d |-> -a.n] ELSE [n |-> a.d, d |-> a.n]

RDiv(a, b) == RMul(a, RInv(b))

RLt(a, b) == RSub(a, b).n < 0

RLe(a, b) == RSub(a, b).n <= 0

RAbs(a) == [n |-> Abs(a.n), d |-> a.d]

Zero == I(0)

Half == Q(1, 2)

(***************************************************************************)
(* core/loads.py: the load model.                                          *)
(***************************************************************************)
PointLoad(v, p) == [value_kN |-> v, position_m |-> p]

UDL(w, s, e) == [intensity_kN_per_m |-> w, start_m |-> s, end_m |-> e]

LoadCase(nm, span, pls, us, g) ==
    [name |-> nm, span_m |-> span, point_loads |-> pls, udls |-> us, gamma |-> g]

(***************************************************************************)
(* core/loads.py: combine_load_cases.                                      *)
(* combination_factors (a dict) is a function whose domain is the set of   *)
(* names the dict holds.                                                   *)
(***************************************************************************)
SpanTolerance == Q(1, 1000000)

dict_get(d, key, default) == IF key \in DOMAIN d THEN d[key] ELSE default

\* line 60: any(abs(c.span_m - span) > 1e-6 for c in cases), span = cases[0].span_m
SpanMismatch(cases) ==
    \E i \in 1..Len(cases) :
        RLt(SpanTolerance, RAbs(RSub(cases[i].span_m, cases[1].span_m)))

\* lines 67-69: psi = combination_factors.get(lc.name, 0.0); if psi == 0.0: continue
SkippedMutNever(lcase, combination_factors) == FALSE

Skipped(lcase, combination_factors) ==
    dict_get(combination_factors, lcase.name, Zero) = Zero

\* line 71: factor = psi * lc.gamma
ScaleFactorMutPsiOnly(lcase, combination_factors) ==
    dict_get(combination_factors, lcase.name, Zero)

ScaleFactor(lcase, combination_factors) ==
    RMul(dict_get(combination_factors, lcase.name, Zero), lcase.gamma)

\* lines 73-79
ScaledPointLoads(lcase, factor) ==
    [i \in 1..Len(lcase.point_loads) |->
        PointLoad(RMul(lcase.point_loads[i].value_kN, factor),
                  lcase.point_loads[i].position_m)]

\* lines 81-88
ScaledUDLs(lcase, factor) ==
    [i \in 1..Len(lcase.udls) |->
        UDL(RMul(lcase.udls[i].intensity_kN_per_m, factor),
            lcase.udls[i].start_m, lcase.udls[i].end_m)]

\* lines 63-88: the loop over the cases, appending to combined_point_loads
RECURSIVE combined_point_loads(_, _)
combined_point_loads(cases, combination_factors) ==
    IF cases = <<>> THEN <<>>
    ELSE (IF Skipped(Head(cases), combination_factors) THEN <<>>
          ELSE ScaledPointLoads(Head(cases), ScaleFactor(Head(cases), combination_factors)))
         \o combined_point_loads(Tail(cases), combination_factors)

\* lines 63-88 with the cases' UDLs put in front of, not after, the earlier ones
RECURSIVE combined_udlsMutPrepend(_, _)
combined_udlsMutPrepend(cases, combination_factors) ==
    IF cases = <<>> THEN <<>>
    ELSE combined_udlsMutPrepend(Tail(cases), combination_factors)
         \o (IF Skipped(Head(cases), combination_factors) THEN <<>>
             ELSE ScaledUDLs(Head(cases), ScaleFactor(Head(cases), combination_factors)))

\* lines 63-88: the loop over the cases, appending to combined_udls
RECURSIVE combined_udls(_, _)
combined_udls(cases, combination_factors) ==
    IF cases = <<>> THEN <<>>
    ELSE (IF Skipped(Head(cases), combination_factors) THEN <<>>
          ELSE ScaledUDLs(Head(cases), ScaleFactor(Head(cases), combination_factors)))
         \o combined_udls(Tail(cases), combination_factors)

Raised(kind) == [status |-> kind]

Returned(v) == [status |-> "ok", value |-> v]

\* lines 55-96 without the check of lines 56-57: an empty list gives an empty case
combine_load_casesMutNoEmptyCheck(cases, combination_factors, name) ==
    IF cases # <<>> /\ SpanMismatch(cases) THEN Raised("ValueError")
    ELSE Returned(LoadCase(name, IF cases = <<>> THEN Zero ELSE cases[1].span_m,
                           combined_point_loads(cases, combination_factors),
                           combined_udls(cases, combination_factors), I(1)))

\* lines 55-96
combine_load_cases(cases, combination_factors, name) ==
    IF cases = <<>> THEN Raised("ValueError")
    ELSE IF SpanMismatch(cases) THEN Raised("ValueError")
    ELSE Returned(LoadCase(name, cases[1].span_m,
                           combined_point_loads(cases, combination_factors),
                           combined_udls(cases, combination_factors), I(1)))

(***************************************************************************)
(* core/loads.py: _reactions_simply_supported.                             *)
(***************************************************************************)
RECURSIVE RSum(_)
RSum(seq) == IF seq = <<>> THEN Zero ELSE RAdd(Head(seq), RSum(Tail(seq)))

\* line 115: RB += -P * a / L
PointRB(pl, L) == RDiv(RMul(RNeg(pl.value_kN), pl.position_m), L)

\* line 116: RA += -P - (-P * a / L)
PointRAMutNoComplement(pl, L) == RNeg(pl.value_kN)

PointRA(pl, L) == RSub(RNeg(pl.value_kN), PointRB(pl, L))

\* lines 123-124: Lw = b - a; W = w_int * Lw
UDLLength(w) == RSub(w.end_m, w.start_m)

UDLTotal(w) == RMul(w.intensity_kN_per_m, UDLLength(w))

\* line 125 with the resultant at the end of the interval: x_res = a + Lw
UDLResultantMutEnd(w) == RAdd(w.start_m, UDLLength(w))

\* line 125: x_res = a + Lw / 2.0
UDLResultant(w) == RAdd(w.start_m, RDiv(UDLLength(w), I(2)))

\* line 126: RB += -W * x_res / L
UDLRB(w, L) == RDiv(RMul(RNeg(UDLTotal(w)), UDLResultant(w)), L)

\* line 127: RA += -W - (-W * x_res / L)
UDLRA(w, L) == RSub(RNeg(UDLTotal(w)), UDLRB(w, L))

\* lines 105-129; a float division by L = 0.0 raises ZeroDivisionError
reactions_simply_supported(lcase) ==
    LET L == lcase.span_m
        pls == lcase.point_loads
        us == lcase.udls
    IN  IF L = Zero /\ (pls # <<>> \/ us # <<>>) THEN Raised("ZeroDivisionError")
        ELSE Returned(
          [RA |-> RAdd(RSum([i \in 1..Len(pls) |-> PointRA(pls[i], L)]),
                       RSum([i \in 1..Len(us) |-> UDLRA(us[i], L)])),
           RB |-> RAdd(RSum([i \in 1..Len(pls) |-> PointRB(pls[i], L)]),
                       RSum([i \in 1..Len(us) |-> UDLRB(us[i], L)]))])

\* The signed sum of the point-load values and of intensity * (end - start).
total_applied_load(lcase) ==
    RAdd(RSum([i \in 1..Len(lcase.point_loads) |-> lcase.point_loads[i].value_kN]),
         RSum([i \in 1..Len(lcase.udls) |-> UDLTotal(lcase.udls[i])]))

(***************************************************************************)
(* core/loads.py: analyze_simply_supported.                                *)
(***************************************************************************)
\* line 147: np.linspace(0.0, L, n_points), n_points >= 2; the last sample is L
linspace(L, n_points) ==
    [i \in 1..n_points |->
        IF i = n_points THEN L ELSE RDiv(RMul(I(i - 1), L), I(n_points - 1))]

\* line 188: V[mask2] += w_int * (Lw - length_active[mask2[mask1]]).  The left
\* side has one entry per sample with x >= b, the right side one per sample
\* with x >= a and x >= b; numpy raises ValueError unless the sizes agree or
\* the right side has exactly one entry.
FirstPassShapeError(w, x) ==
    LET k == Cardinality({i \in DOMAIN x : RLe(w.end_m, x[i])})
        m == Cardinality({i \in DOMAIN x : RLe(w.start_m, x[i]) /\ RLe(w.end_m, x[i])})
    IN  ~(m = k \/ m = 1)

\* lines 170-188: the first UDL pass, whose values lines 193-194 discard
FirstPassRaises(lcase, x) ==
    \E j \in 1..Len(lcase.udls) : FirstPassShapeError(lcase.udls[j], x)

\* lines 201-206: mask = x >= a; V[mask] += P; M[mask] += P * (x[mask] - a)
\* lines 204-205 with the mask x > a in place of x >= a
PointShearMutStrict(pl, xi) == IF RLt(pl.position_m, xi) THEN pl.value_kN ELSE Zero

PointShear(pl, xi) == IF RLe(pl.position_m, xi) THEN pl.value_kN ELSE Zero

PointMoment(pl, xi) ==
    IF RLe(pl.position_m, xi) THEN RMul(pl.value_kN, RSub(xi, pl.position_m)) ELSE Zero

\* lines 217-222: the active length l of the UDL at xi
ActiveLength(w, xi) ==
    IF RLe(xi, w.start_m) THEN Zero
    ELSE IF RLt(w.start_m, xi) /\ RLe(xi, w.end_m) THEN RSub(xi, w.start_m)
    ELSE UDLLength(w)

\* line 224: V[i] += w_int * l
UDLShear(w, xi) == RMul(w.intensity_kN_per_m, ActiveLength(w, xi))

\* line 225 without the factor 0.5
UDLMomentMutNoHalf(w, xi) ==
    RMul(w.intensity_kN_per_m, RMul(ActiveLength(w, xi), ActiveLength(w, xi)))

\* line 225: M[i] += w_int * 0.5 * l**2
UDLMoment(w, xi) ==
    RMul(RMul(w.intensity_kN_per_m, Half), RMul(ActiveLength(w, xi), ActiveLength(w, xi)))

\* lines 197, 205, 224, 229 at one sample
ShearAt(lcase, r, xi) ==
    LET pls == lcase.point_loads
        us == lcase.udls
    IN  RAdd(RAdd(r.RA, RSum([i \in 1..Len(pls) |-> PointShear(pls[i], xi)])),
             RAdd(RSum([i \in 1..Len(us) |-> UDLShear(us[i], xi)]),
                  IF RLe(lcase.span_m, xi) THEN r.RB ELSE Zero))

\* lines 198, 206, 225, 230 at one sample
MomentAt(lcase, r, xi) ==
    LET pls == lcase.point_loads
        us == lcase.udls
    IN  RAdd(RAdd(RMul(r.RA, xi), RSum([i \in 1..Len(pls) |-> PointMoment(pls[i], xi)])),
             RAdd(RSum([i \in 1..Len(us) |-> UDLMoment(us[i], xi)]),
                  IF RLe(lcase.span_m, xi)
                  THEN RMul(r.RB, RSub(xi, lcase.span_m)) ELSE Zero))

\* lines 236-237: float(np.max(np.abs(A)))
MaxAbs(seq) ==
    LET abs == {RAbs(seq[i]) : i \in DOMAIN seq}
    IN  CHOOSE m \in abs : \A a \in abs : RLe(a, m)

\* lines 146-240
analyze_simply_supported(lcase, n_points) ==
    LET x == linspace(lcase.span_m, n_points)
        rr == reactions_simply_supported(lcase)
    IN  IF rr.status # "ok" THEN rr
        ELSE IF FirstPassRaises(lcase, x) THEN Raised("ValueError")
        ELSE LET V == [i \in 1..n_points |-> ShearAt(lcase, rr.value, x[i])]
                 M == [i \in 1..n_points |-> MomentAt(lcase, rr.value, x[i])]
             IN  Returned([x_m |-> x, V_kN |-> V, M_kNm |-> M,
                           V_max_kN |-> MaxAbs(V), M_max_kNm |-> MaxAbs(M),
                           RA_kN |-> rr.value.RA, RB_kN |-> rr.value.RB])

(***************************************************************************)
(* core/co2_calc.py and Version1/core/co2_calc.py: MaterialsDB.            *)
(* db.df is a sequence of rows.  An empty profile cell is read by pandas   *)
(* as NaN, which compares unequal to everything, itself included.          *)
(***************************************************************************)
NaN == "nan"

Row(p, m, W, Iy) == [profile |-> p, mass_kg_per_m |-> m, W_cm3 |-> W, I_cm4 |-> Iy]

\* self.df["profile"] == profile, element by element
ProfileEq(a, b) == a # NaN /\ b # NaN /\ a = b

\* get_section_row, line 38: rows = self.df.loc[self.df["profile"] == profile]
MatchingRows(tbl, profile) == {i \in 1..Len(tbl) : ProfileEq(tbl[i].profile, profile)}

\* get_section_row, lines 39-41: KeyError when rows.empty, else rows.iloc[0]
get_section_row(tbl, profile) ==
    LET rows == MatchingRows(tbl, profile)
    IN  IF rows = {} THEN Raised("KeyError")
        ELSE Returned(tbl[CHOOSE i \in rows : \A j \in rows : i <= j])

STEEL_CO2_KG_PER_KG == Q(19, 10)

\* Version1 beam_mass_kg: mass_per_m * beam.length_m
beam_mass_kg(row, length_m) == RMul(row.mass_kg_per_m, length_m)

\* Version1 beam_co2_kg: mass_kg * STEEL_CO2_KG_PER_KG
beam_co2_kg(row, length_m) == RMul(beam_mass_kg(row, length_m), STEEL_CO2_KG_PER_KG)

\* Version1 beam_M_Rd_kNm: W_cm3 * fy_MPa / (gamma_M0 * 1000.0)
beam_M_Rd_kNm(row, fy_MPa, gamma_M0) ==
    RDiv(RMul(row.W_cm3, fy_MPa), RMul(gamma_M0, I(1000)))

(***************************************************************************)
(* core/deflection.py: max_deflection_simply_supported, I_cm4 # 0.         *)
(* The quotients are taken factor by factor so that every intermediate     *)
(* value stays a small fraction; the value is that of the source's         *)
(* expression over the reals.                                              *)
(***************************************************************************)
E_STEEL_MPA == I(210000)

max_deflection_simply_supported(span_m, I_cm4, q_kN_per_m, P_kN) ==
    LET L_mm == RMul(span_m, I(1000))
        I_mm4 == RMul(I_cm4, I(10000))
        P_N == RMul(P_kN, I(1000))
        cube == RMul(RMul(RDiv(L_mm, E_STEEL_MPA), RDiv(L_mm, I_mm4)), L_mm)
        w_q == IF q_kN_per_m # Zero
               THEN RMul(RMul(RMul(I(5), q_kN_per_m), RDiv(L_mm, I(384))), cube)
               ELSE Zero
        w_P == IF P_kN # Zero THEN RMul(RDiv(P_N, I(48)), cube) ELSE Zero
    IN  RAdd(w_q, w_P)

(***************************************************************************)
(* main_beam_demo.py: main.                                                *)
(***************************************************************************)
span == I(6)

q_ULS == I(15)

P_ULS == I(30)

q_SLS == I(15)

P_SLS == I(30)

fy_MPa == I(355)

gamma_M0 == I(1)

\* line 54
deflection_limit_mm == RDiv(RMul(span, I(1000)), I(250))

\* lines 27-33
main_lc ==
    LoadCase("ULS", span, <<PointLoad(RNeg(P_ULS), RDiv(span, I(2)))>>,
             <<UDL(RNeg(q_ULS), Zero, span)>>, I(1))

\* analyze_simply_supported's default n_points
DefaultNPoints == 201

\* lines 61-88: one pass of the loop body for candidate prof.  core/co2_calc.py
\* defines no beam_M_Rd_kNm, so line 65 raises AttributeError there.
EvaluateCandidate(tbl, module, prof, M_Ed) ==
    LET got == get_section_row(tbl, prof)
        row == got.value
        M_Rd == beam_M_Rd_kNm(row, fy_MPa, gamma_M0)
        w_max_mm == max_deflection_simply_supported(span, row.I_cm4, q_SLS, P_SLS)
    IN  IF got.status # "ok" THEN got
        ELSE IF module = "core" THEN Raised("AttributeError")
        ELSE IF M_Rd = Zero \/ row.I_cm4 = Zero THEN Raised("ZeroDivisionError")
        ELSE Returned([profile |-> prof,
                       M_Rd_kNm |-> M_Rd,
                       utilization |-> RDiv(M_Ed, M_Rd),
                       w_max_mm |-> w_max_mm,
                       deflection_ok |-> RLe(w_max_mm, deflection_limit_mm),
                       mass_kg |-> beam_mass_kg(row, span),
                       co2_kg |-> beam_co2_kg(row, span)])

\* lines 93-96
Conforms(c) == RLe(c.utilization, I(1)) /\ c.deflection_ok

RECURSIVE Filter(_)
Filter(cs) ==
    IF cs = <<>> THEN <<>>
    ELSE (IF Conforms(Head(cs)) THEN <<Head(cs)>> ELSE <<>>) \o Filter(Tail(cs))

\* line 98: sorted(passing, key=lambda c: c["co2_kg"]) is stable: an element
\* goes after every element whose key is not greater than its own.
InsertPosMutUnstable(sorted_cs, c) ==
    Cardinality({i \in 1..Len(sorted_cs) : RLt(sorted_cs[i].co2_kg, c.co2_kg)})

InsertPos(sorted_cs, c) ==
    Cardinality({i \in 1..Len(sorted_cs) : RLe(sorted_cs[i].co2_kg, c.co2_kg)})

Insert(sorted_cs, c) ==
    LET k == InsertPos(sorted_cs, c)
    IN  SubSeq(sorted_cs, 1, k) \o <<c>> \o SubSeq(sorted_cs, k + 1, Len(sorted_cs))

RECURSIVE Sorted(_)
Sorted(cs) ==
    IF cs = <<>> THEN <<>>
    ELSE Insert(Sorted(SubSeq(cs, 1, Len(cs) - 1)), cs[Len(cs)])

(***************************************************************************)
(* Inputs.                                                                 *)
(***************************************************************************)
MaxCases == 3

MaxPointLoads == 2

MaxUDLs == 1

MaxNPoints == 3

MaxRows == 3

MaxNamedCases == 1

SeqsUpTo(S, n) == UNION {[1..k -> S] : k \in 0..n}

\* Spans around 4 m that differ by 0.8e-6 and 1.6e-6
CombSpans == {I(4), Q(40000008, 10000000), Q(39999992, 10000000)}

Names == {"G", "Q"}

Gammas == {I(1), Q(3, 2)}

Coefficients == {Zero, I(1), Q(3, 2)}

PointLoadsOf(nm) ==
    IF nm = "G" THEN <<>>
    ELSE <<PointLoad(I(-20), I(2)), PointLoad(I(5), I(1))>>

UDLsOf(nm) ==
    IF nm = "G" THEN <<UDL(I(-10), Zero, I(4))>>
    ELSE <<UDL(I(3), I(1), I(2))>>

CasePool ==
    {LoadCase(nm, s, PointLoadsOf(nm), UDLsOf(nm), g) :
        nm \in Names, s \in CombSpans, g \in Gammas}

FactorMaps == UNION {[S -> Coefficients] : S \in SUBSET Names}

\* Result names passed in place of the default "combination"
ResultNames == {"ULS", "SLS"}

\* Load cases handed to the statics solver: valid ones, and ones with a span
\* <= 0, a position outside the span, an empty or a reversed UDL interval.
AnalysisSpans == {I(-2), Zero, I(4)}

PointLoadPool ==
    {PointLoad(I(-3), Zero), PointLoad(I(-3), I(1)), PointLoad(I(-3), I(4)),
     PointLoad(I(2), I(5))}

UDLPool ==
    {UDL(I(-2), Zero, I(4)), UDL(I(-2), I(1), I(3)), UDL(I(1), Zero, I(2)),
     UDL(I(-2), I(2), Zero), UDL(I(1), I(2), I(2)), UDL(I(-2), I(2), I(6))}

AnalysisCases ==
    {LoadCase("LC", s, pls, us, I(1)) :
        s \in AnalysisSpans,
        pls \in SeqsUpTo(PointLoadPool, MaxPointLoads),
        us \in SeqsUpTo(UDLPool, MaxUDLs)}

\* Rows of data/materials.csv: two conforming rows of equal mass, a row that
\* fails the deflection limit, a row that fails bending, a heavier conforming
\* row, a second row for a profile already listed, a row with no profile.
RowPool ==
    {Row("IPE 330", I(40), I(600), I(9000)),
     Row("IPE 300", I(40), I(500), I(8000)),
     Row("IPE 270", I(30), I(600), I(5000)),
     Row("HEA 160", I(30), I(200), I(9000)),
     Row("IPE 360", I(50), I(700), I(10000)),
     Row("IPE 330", I(20), I(700), I(10000)),
     Row(NaN, I(30), I(600), I(9000))}

DbModules == {"core", "Version1"}

(***************************************************************************)
(* State machine.  call holds the last library call and its outcome; the   *)
(* other variables are main's locals.                                      *)
(***************************************************************************)
NoValue == [status |-> "none"]

Init ==
    /\ pc = "idle"
    /\ call = [op |-> "none"]
    /\ df = <<>>
    /\ dbModule = "none"
    /\ res = NoValue
    /\ idx = 0
    /\ candidates = <<>>
    /\ passing_sorted = <<>>
    /\ best = NoValue
    /\ error = "none"

mainVars == <<df, dbModule, res, idx, candidates, passing_sorted, best, error>>

\* a call of combine_load_cases
CallCombine ==
    /\ pc = "idle"
    /\ \E cases \in SeqsUpTo(CasePool, MaxCases), f \in FactorMaps :
          call' = [op |-> "combine", cases |-> cases, combination_factors |-> f,
                   name |-> "combination",
                   out |-> combine_load_cases(cases, f, "combination")]
    /\ pc' = "returned"
    /\ UNCHANGED mainVars

\* a call of combine_load_cases that passes name
CallCombineNamed ==
    /\ pc = "idle"
    /\ \E cases \in SeqsUpTo(CasePool, MaxNamedCases), f \in FactorMaps,
          nm \in ResultNames :
          call' = [op |-> "combine", cases |-> cases, combination_factors |-> f,
                   name |-> nm,
                   out |-> combine_load_cases(cases, f, nm)]
    /\ pc' = "returned"
    /\ UNCHANGED mainVars

\* a call of analyze_simply_supported
CallAnalyze ==
    /\ pc = "idle"
    /\ \E lcase \in AnalysisCases, n \in 2..MaxNPoints :
          call' = [op |-> "analyze", lcase |-> lcase, n_points |-> n,
                   out |-> analyze_simply_supported(lcase, n)]
    /\ pc' = "returned"
    /\ UNCHANGED mainVars

\* a call of _reactions_simply_supported
CallReactions ==
    /\ pc = "idle"
    /\ \E lcase \in AnalysisCases :
          call' = [op |-> "reactions", lcase |-> lcase,
                   out |-> reactions_simply_supported(lcase)]
    /\ pc' = "returned"
    /\ UNCHANGED mainVars

\* main, lines 27-42
MainAnalyze ==
    /\ pc = "idle"
    /\ res' = analyze_simply_supported(main_lc, DefaultNPoints)
    /\ pc' = "analysed"
    /\ UNCHANGED <<call, df, dbModule, idx, candidates, passing_sorted, best, error>>

M_Ed == res.value.M_max_kNm

\* main, lines 47-58: db = MaterialsDB(...); candidate_profiles = db.df["profile"].tolist()
MainOpenDB ==
    /\ pc = "analysed"
    /\ \E tbl \in SeqsUpTo(RowPool, MaxRows), m \in DbModules :
          /\ df' = tbl
          /\ dbModule' = m
    /\ idx' = 1
    /\ pc' = "loop"
    /\ UNCHANGED <<call, res, candidates, passing_sorted, best, error>>

candidate_profiles == [i \in 1..Len(df) |-> df[i].profile]

\* main, lines 60-88: one iteration; an exception leaves main
MainEvaluate ==
    /\ pc = "loop"
    /\ idx <= Len(candidate_profiles)
    /\ LET ev == EvaluateCandidate(df, dbModule, candidate_profiles[idx], M_Ed)
       IN  IF ev.status = "ok"
           THEN /\ candidates' = Append(candidates, ev.value)
                /\ idx' = idx + 1
                /\ UNCHANGED <<pc, error>>
           ELSE /\ pc' = "raised"
                /\ error' = ev.status
                /\ UNCHANGED <<candidates, idx>>
    /\ UNCHANGED <<call, df, dbModule, res, passing_sorted, best>>

\* main, lines 93-122
MainSelect ==
    /\ pc = "loop"
    /\ idx > Len(candidate_profiles)
    /\ passing_sorted' = Sorted(Filter(candidates))
    /\ best' = IF passing_sorted' = <<>> THEN NoValue
               ELSE Returned(passing_sorted'[1])
    /\ pc' = "done"
    /\ UNCHANGED <<call, df, dbModule, res, idx, candidates, error>>

Next ==
    \/ CallCombine
    \/ CallCombineNamed
    \/ CallAnalyze
    \/ CallReactions
    \/ MainAnalyze
    \/ MainOpenDB
    \/ MainEvaluate
    \/ MainSelect

Spec == Init /\ [][Next]_vars

(***************************************************************************)
(* Properties.                                                             *)
(***************************************************************************)
InRange(v, lo, hi) == RLe(lo, v) /\ RLe(v, hi)

\* span > 0, point loads within [0, span], UDLs with 0 <= start < end <= span
ValidCase(lcase) ==
    /\ RLt(Zero, lcase.span_m)
    /\ \A i \in 1..Len(lcase.point_loads) :
          InRange(lcase.point_loads[i].position_m, Zero, lcase.span_m)
    /\ \A i \in 1..Len(lcase.udls) :
          /\ RLe(Zero, lcase.udls[i].start_m)
          /\ RLt(lcase.udls[i].start_m, lcase.udls[i].end_m)
          /\ RLe(lcase.udls[i].end_m, lcase.span_m)

\* C1: for a span > 0 and any mixture of point loads and UDLs, the reactions
\* of _reactions_simply_supported satisfy RA + RB + total applied load = 0.
C1_Equilibrium ==
    (call.op = "reactions" /\ RLt(Zero, call.lcase.span_m)) =>
        /\ call.out.status = "ok"
        /\ RAdd(RAdd(call.out.value.RA, call.out.value.RB),
                total_applied_load(call.lcase)) = Zero

C1_Witness ==
    /\ call.op = "reactions"
    /\ RLt(Zero, call.lcase.span_m)
    /\ Len(call.lcase.point_loads) = 2
    /\ Len(call.lcase.udls) = 1
    /\ call.out.status = "ok"
    /\ call.out.value.RA # Zero
    /\ call.out.value.RB # Zero
    /\ call.out.value.RA # call.out.value.RB

\* C2: for every valid load case and n_points >= 2 the moment diagram of
\* analyze_simply_supported is 0 at the first and at the last sample.
C2_MomentZeroAtEnds ==
    (call.op = "analyze" /\ ValidCase(call.lcase) /\ call.n_points >= 2) =>
        /\ call.out.status = "ok"
        /\ call.out.value.M_kNm[1] = Zero
        /\ call.out.value.M_kNm[call.n_points] = Zero

\* The cases of a combination call that take part: named in the factors with a
\* coefficient other than 0.
IncludedCases(cs, f) ==
    {i \in 1..Len(cs) : cs[i].name \in DOMAIN f /\ f[cs[i].name] # Zero}

PointLoadSlots(cs, f) ==
    UNION {{<<i, j>> : j \in 1..Len(cs[i].point_loads)} : i \in IncludedCases(cs, f)}

UDLSlots(cs, f) ==
    UNION {{<<i, j>> : j \in 1..Len(cs[i].udls)} : i \in IncludedCases(cs, f)}

\* The place of slot p in case order, then in the case's own order
SlotRank(slots, p) ==
    Cardinality({q \in slots : q[1] < p[1] \/ (q[1] = p[1] /\ q[2] <= p[2])})

\* C3: combine_load_cases returns exactly the included cases' point loads and
\* UDLs, in case order and then in each case's own order, each magnitude
\* multiplied by coefficient * gamma and each position or interval unchanged.
C3_CombinedLoads ==
    (call.op = "combine" /\ call.out.status = "ok") =>
        LET cs == call.cases
            f == call.combination_factors
            r == call.out.value
            fac(i) == RMul(f[cs[i].name], cs[i].gamma)
            ps == PointLoadSlots(cs, f)
            us == UDLSlots(cs, f)
        IN  /\ Len(r.point_loads) = Cardinality(ps)
            /\ \A p \in ps :
                  r.point_loads[SlotRank(ps, p)] =
                      PointLoad(RMul(cs[p[1]].point_loads[p[2]].value_kN, fac(p[1])),
                                cs[p[1]].point_loads[p[2]].position_m)
            /\ Len(r.udls) = Cardinality(us)
            /\ \A u \in us :
                  r.udls[SlotRank(us, u)] =
                      UDL(RMul(cs[u[1]].udls[u[2]].intensity_kN_per_m, fac(u[1])),
                          cs[u[1]].udls[u[2]].start_m, cs[u[1]].udls[u[2]].end_m)

C3_Witness ==
    /\ call.op = "combine"
    /\ call.out.status = "ok"
    /\ Len(call.cases) = 3
    /\ Cardinality(IncludedCases(call.cases, call.combination_factors)) = 3
    /\ Len(call.out.value.point_loads) = 2
    /\ Len(call.out.value.udls) = 3
    /\ call.out.value.udls[1].intensity_kN_per_m = I(-15)
    /\ call.out.value.udls[2].intensity_kN_per_m = Q(27, 4)
    /\ call.out.value.udls[3].intensity_kN_per_m = Q(-45, 2)

RemoveAt(seq, i) == SubSeq(seq, 1, i - 1) \o SubSeq(seq, i + 1, Len(seq))

ExcludedCases(cs, f) == (1..Len(cs)) \ IncludedCases(cs, f)

\* C4: a case whose name is absent from combination_factors or maps to 0.0
\* contributes no load and raises no error: whenever the call without that
\* case returns, the call with it returns too, with the same loads.
C4_ExcludedAsRemoved ==
    call.op = "combine" =>
        \A i \in ExcludedCases(call.cases, call.combination_factors) :
            LET without == combine_load_cases(RemoveAt(call.cases, i),
                                              call.combination_factors, call.name)
            IN  (Len(call.cases) >= 2 /\ without.status = "ok") =>
                    /\ call.out.status = "ok"
                    /\ call.out.value.point_loads = without.value.point_loads
                    /\ call.out.value.udls = without.value.udls

\* C4 as amended: an excluded case contributes no load (when the call and the
\* call without it both return, the loads are the same), and the outcome is in
\* every field that of the call without it when its span is the span of the
\* first of the remaining cases; the span check runs over excluded cases too.
C4_ExcludedAsRemovedSameSpan ==
    call.op = "combine" =>
        \A i \in ExcludedCases(call.cases, call.combination_factors) :
            LET without == combine_load_cases(RemoveAt(call.cases, i),
                                              call.combination_factors, call.name)
            IN  Len(call.cases) >= 2 =>
                    /\ (call.out.status = "ok" /\ without.status = "ok") =>
                           /\ call.out.value.point_loads = without.value.point_loads
                           /\ call.out.value.udls = without.value.udls
                    /\ call.cases[i].span_m = RemoveAt(call.cases, i)[1].span_m =>
                           call.out = without

C4_Witness ==
    /\ call.op = "combine"
    /\ Len(call.cases) = 3
    /\ call.out.status = "ok"
    /\ Len(call.out.value.point_loads) = 2
    /\ ExcludedCases(call.cases, call.combination_factors) = {1, 3}
    /\ call.cases[1].name \in DOMAIN call.combination_factors
    /\ call.cases[1].udls # <<>>
    /\ call.cases[1].span_m = call.cases[2].span_m
    /\ call.cases[3].span_m = call.cases[1].span_m

SingleCaseWithUnitCoefficient ==
    /\ call.op = "combine"
    /\ Len(call.cases) = 1
    /\ call.combination_factors = (call.cases[1].name :> I(1))

\* C5: whatever its gamma, combining a single case c with coefficient 1.0
\* returns c's point loads and UDLs: same magnitudes, positions and order.
C5_IdentityAnyGamma ==
    SingleCaseWithUnitCoefficient =>
        /\ call.out.status = "ok"
        /\ call.out.value.point_loads = call.cases[1].point_loads
        /\ call.out.value.udls = call.cases[1].udls

\* C5 as amended: combining a single case c with coefficient 1.0 returns c's
\* loads in c's order with positions and intervals unchanged and magnitudes
\* multiplied by c's gamma: c's own loads when gamma is 1.0.
C5_IdentityUpToGamma ==
    SingleCaseWithUnitCoefficient =>
        LET c == call.cases[1]
            r == call.out.value
        IN  /\ call.out.status = "ok"
            /\ Len(r.point_loads) = Len(c.point_loads)
            /\ \A i \in 1..Len(c.point_loads) :
                  r.point_loads[i] =
                      PointLoad(RMul(c.point_loads[i].value_kN, c.gamma),
                                c.point_loads[i].position_m)
            /\ Len(r.udls) = Len(c.udls)
            /\ \A i \in 1..Len(c.udls) :
                  r.udls[i] = UDL(RMul(c.udls[i].intensity_kN_per_m, c.gamma),
                                  c.udls[i].start_m, c.udls[i].end_m)
            /\ c.gamma = I(1) => (r.point_loads = c.point_loads /\ r.udls = c.udls)

C5_Witness ==
    /\ SingleCaseWithUnitCoefficient
    /\ call.cases[1].gamma = Q(3, 2)
    /\ Len(call.cases[1].point_loads) = 2
    /\ call.out.status = "ok"
    /\ call.out.value.point_loads[1].value_kN = I(-30)

\* C6: combine_load_cases fails whenever any two of the input cases have spans
\* that differ by more than 1e-6.
C6_AnyTwoSpansMismatch ==
    (/\ call.op = "combine"
     /\ \E i, j \in 1..Len(call.cases) :
           RLt(SpanTolerance, RAbs(RSub(call.cases[i].span_m, call.cases[j].span_m))))
        => call.out.status = "ValueError"

\* C7: analyze_simply_supported fails, and returns no diagram, when the span is
\* <= 0, a UDL has start >= end, or a position or interval lies outside [0, span].
C7_InvalidInputRejected ==
    (call.op = "analyze" /\ ~ValidCase(call.lcase)) => call.out.status # "ok"

LookupSucceeds(profile) == get_section_row(df, profile).status = "ok"

\* C8: a candidate whose section lookup fails is left out and the loop goes on:
\* once main has ended, every candidate whose lookup succeeds has been evaluated.
C8_FailedLookupSkipped ==
    (pc \in {"done", "raised"} /\ dbModule = "Version1") =>
        \A i \in 1..Len(candidate_profiles) :
            LookupSucceeds(candidate_profiles[i]) =>
                \E k \in 1..Len(candidates) :
                    candidates[k].profile = candidate_profiles[i]

\* The evaluated candidates with utilization <= 1.0 and deflection_ok
ConformingCandidates ==
    {i \in 1..Len(candidates) :
        RLe(candidates[i].utilization, I(1)) /\ candidates[i].deflection_ok}

\* C9: the selected best section is a conforming candidate of minimal CO2, the
\* earliest in candidate order among those of equal CO2; with no conforming
\* candidate the outcome is "no conforming section" and nothing is raised.
C9_BestIsFirstMinimalCO2 ==
    pc = "done" =>
        /\ error = "none"
        /\ IF ConformingCandidates = {}
           THEN best = NoValue /\ passing_sorted = <<>>
           ELSE /\ best.status = "ok"
                /\ \E i \in ConformingCandidates :
                      /\ best.value = candidates[i]
                      /\ \A j \in ConformingCandidates :
                            /\ RLe(candidates[i].co2_kg, candidates[j].co2_kg)
                            /\ candidates[j].co2_kg = candidates[i].co2_kg => i <= j

C9_Witness ==
    /\ pc = "done"
    /\ Len(candidates) = 3
    /\ Cardinality(ConformingCandidates) = 2
    /\ \E i \in 1..3 :
          /\ i \notin ConformingCandidates
          /\ \A j \in ConformingCandidates : RLt(candidates[i].co2_kg, candidates[j].co2_kg)
    /\ \A i, j \in ConformingCandidates : candidates[i].co2_kg = candidates[j].co2_kg
    /\ \E i, j \in ConformingCandidates : candidates[i].profile # candidates[j].profile
    /\ best.status = "ok"

\* C10: for span 6 m, a UDL of -15 kN/m over [0, 6] and a point load of -30 kN
\* at 3 m, analyze_simply_supported returns RA = RB = 60 kN and M_max = 90 kNm.
C10_ScenarioA_Mmax90 ==
    res # NoValue =>
        /\ res.status = "ok"
        /\ res.value.RA_kN = I(60)
        /\ res.value.RB_kN = I(60)
        /\ res.value.M_max_kNm = I(90)

\* C10 as amended: the same load case gives RA = RB = 60 kN and
\* M_max = 112.5 kNm (= 15 * 6^2 / 8 + 30 * 6 / 4), reached at x = 3.
C10_ScenarioA_Mmax112 ==
    res # NoValue =>
        /\ res.status = "ok"
        /\ res.value.RA_kN = I(60)
        /\ res.value.RB_kN = I(60)
        /\ res.value.M_max_kNm = Q(225, 2)
        /\ \E i \in 1..DefaultNPoints :
              res.value.x_m[i] = I(3) /\ res.value.M_kNm[i] = Q(225, 2)

C10_Witness ==
    /\ pc = "analysed"
    /\ res.status = "ok"
    /\ Len(res.value.x_m) = DefaultNPoints
    /\ res.value.x_m[101] = I(3)
    /\ res.value.M_max_kNm = RAbs(res.value.M_kNm[101])

\* C11: combine_load_cases fails when the collection of cases is empty, whatever
\* the coefficients and the result name, and returns no load case.
C11_EmptyCasesRejected ==
    (call.op = "combine" /\ call.cases = <<>>) =>
        /\ call.out.status = "ValueError"
        /\ "value" \notin DOMAIN call.out

C11_Witness ==
    /\ call.op = "combine"
    /\ call.cases = <<>>
    /\ call.name = "ULS"
    /\ DOMAIN call.combination_factors = Names
    /\ call.combination_factors["G"] = Q(3, 2)
    /\ call.out.status = "ValueError"

\* A case of span > 0 whose only load is one point load, placed at pos
SinglePointLoadAt(lcase, pos) ==
    /\ RLt(Zero, lcase.span_m)
    /\ lcase.udls = <<>>
    /\ Len(lcase.point_loads) = 1
    /\ lcase.point_loads[1].position_m = pos

\* C12: a lone point load P exactly at x = 0 (at x = span) is counted once:
\* the reactions are (-P, 0) (are (0, -P)), and the diagram of
\* analyze_simply_supported has shear 0 and moment 0 at every sample.
C12_EndLoadCountedOnce ==
    LET lcase == call.lcase
        P == lcase.point_loads[1].value_kN
        atLeft == SinglePointLoadAt(lcase, Zero)
        atRight == SinglePointLoadAt(lcase, lcase.span_m)
        expected == IF atLeft THEN [RA |-> RNeg(P), RB |-> Zero]
                    ELSE [RA |-> Zero, RB |-> RNeg(P)]
    IN  /\ (call.op = "reactions" /\ (atLeft \/ atRight)) =>
              call.out = Returned(expected)
        /\ (call.op = "analyze" /\ (atLeft \/ atRight)) =>
              /\ call.out.status = "ok"
              /\ call.out.value.RA_kN = expected.RA
              /\ call.out.value.RB_kN = expected.RB
              /\ \A i \in 1..call.n_points :
                    /\ call.out.value.V_kN[i] = Zero
                    /\ call.out.value.M_kNm[i] = Zero

C12_Witness ==
    /\ call.op = "analyze"
    /\ SinglePointLoadAt(call.lcase, call.lcase.span_m)
    /\ call.lcase.point_loads[1].value_kN = I(-3)
    /\ call.n_points = 3
    /\ call.out.status = "ok"
    /\ call.out.value.RB_kN = I(3)
    /\ call.out.value.x_m[3] = call.lcase.span_m
    /\ call.out.value.V_max_kN = Zero

\* A valid case with at least one load, every value and intensity negative
AllDownward(lcase) ==
    /\ ValidCase(lcase)
    /\ lcase.point_loads # <<>> \/ lcase.udls # <<>>
    /\ \A i \in 1..Len(lcase.point_loads) : RLt(lcase.point_loads[i].value_kN, Zero)
    /\ \A i \in 1..Len(lcase.udls) : RLt(lcase.udls[i].intensity_kN_per_m, Zero)

\* Every load of the case is a point load placed at pos
OnlyPointLoadsAt(lcase, pos) ==
    /\ lcase.udls = <<>>
    /\ \A i \in 1..Len(lcase.point_loads) : lcase.point_loads[i].position_m = pos

====
